---- MODULE Spec2Model ----
(***************************************************************************)
(* KdTree<int, 2> of src/src/KdTree.h: the tree (a heap of Node objects    *)
(* linked by owning pointers), its four public operations, and the         *)
(* recursive helpers they call.                                            *)
(*                                                                         *)
(* The heap is an arena: nodes[i] is the i-th Node ever allocated, a       *)
(* pointer is an index into it, and 0 is nullptr.  A std::vector<T> is a   *)
(* sequence; the C++ index i is the TLA+ index i + 1 (operator At).        *)
(***************************************************************************)
EXTENDS Integers, Sequences, FiniteSets

\* ---------------------------------------------------------------- bounds
\* Largest number of nodes the tree is grown to.
MaxNodes == 3
\* Coordinates are drawn from 0..MaxCoord.
MaxCoord == 1

\* ------------------------------------------------------ program constants
\* The template argument K of the tree the driver builds (KdTree<int, 2>).
K == 2

\* The member `dimensions`, set to K by the constructor and never assigned.
dimensions == K

nullptr == 0

\* ----------------------------------------------------------------- inputs
Coords == 0..MaxCoord

\* The vectors of exactly K coordinates.
Points == [1..K -> Coords]

\* Vectors whose size differs from K (sizes 0..K+1 except K).  No operation
\* reads their elements, so one vector per size is enough.
WrongVectors == {[i \in 1..n |-> 0] : n \in (0..(K + 1)) \ {K}}

Vectors == Points \cup WrongVectors

VARIABLES
    nodes,      \* the heap: sequence of [point, left, right]
    root,       \* KdTree::root, an index into nodes or nullptr
    inserted,   \* history: the points of the successful insert calls, in order
    op,         \* the operation called last
    args,       \* its arguments
    outcome,    \* "ok", "InvalidArgument" (std::invalid_argument), "EmptyTree" (std::runtime_error)
    ret         \* the value it returned (<<>> when it returns nothing or throws)

vars == <<nodes, root, inserted, op, args, outcome, ret>>

\* ---------------------------------------------------------------- helpers
\* v[i] of the C++ code.
At(v, i) == v[i + 1]

\* std::abs on int.
Abs(x) == IF x < 0 THEN -x ELSE x

\* The conversion of std::sqrt(double(n)) back to the integer type T:
\* truncation toward zero, i.e. the integer square root for n >= 0.
ISqrt(n) == CHOOSE r \in 0..n : r * r <= n /\ (r + 1) * (r + 1) > n

\* Node(pt): point(pt), left(nullptr), right(nullptr).
Node(pt) == [point |-> pt, left |-> nullptr, right |-> nullptr]

\* The loop of KdTree::distance: sum += diff * diff for i = 0 .. dimensions-1.
RECURSIVE SumSq(_, _, _)
SumSq(a, b, i) ==
    IF i = dimensions THEN 0
    ELSE LET diff == At(a, i) - At(b, i)
         IN  diff * diff + SumSq(a, b, i + 1)

\* KdTree::distance with T = int: the square root is truncated on return.
distance(a, b) == ISqrt(SumSq(a, b, 0))

\* ------------------------------------------------------------------ insert
\* insertRec with the comparison `<=`: a tie on the split coordinate goes left.
RECURSIVE insertRec_TiesLeft(_, _, _, _)
insertRec_TiesLeft(ns, node, point, depth) ==
    IF node = nullptr
    THEN [heap |-> Append(ns, Node(point)), ptr |-> Len(ns) + 1]
    ELSE LET cd == depth % dimensions
         IN  IF At(point, cd) <= At(ns[node].point, cd)
             THEN LET r == insertRec_TiesLeft(ns, ns[node].left, point, depth + 1)
                  IN  [heap |-> [r.heap EXCEPT ![node].left = r.ptr], ptr |-> node]
             ELSE LET r == insertRec_TiesLeft(ns, ns[node].right, point, depth + 1)
                  IN  [heap |-> [r.heap EXCEPT ![node].right = r.ptr], ptr |-> node]

\* insertRec that returns at a node holding an equal point: no duplicates.
RECURSIVE insertRec_Dedup(_, _, _, _)
insertRec_Dedup(ns, node, point, depth) ==
    IF node = nullptr
    THEN [heap |-> Append(ns, Node(point)), ptr |-> Len(ns) + 1]
    ELSE IF ns[node].point = point
    THEN [heap |-> ns, ptr |-> node]
    ELSE LET cd == depth % dimensions
         IN  IF At(point, cd) < At(ns[node].point, cd)
             THEN LET r == insertRec_Dedup(ns, ns[node].left, point, depth + 1)
                  IN  [heap |-> [r.heap EXCEPT ![node].left = r.ptr], ptr |-> node]
             ELSE LET r == insertRec_Dedup(ns, ns[node].right, point, depth + 1)
                  IN  [heap |-> [r.heap EXCEPT ![node].right = r.ptr], ptr |-> node]

\* insertRec(node, point, depth): returns the heap after the call and the
\* pointer the call returns.
RECURSIVE insertRec(_, _, _, _)
insertRec(ns, node, point, depth) ==
    IF node = nullptr
    THEN [heap |-> Append(ns, Node(point)), ptr |-> Len(ns) + 1]
    ELSE LET cd == depth % dimensions
         IN  IF At(point, cd) < At(ns[node].point, cd)
             THEN LET r == insertRec(ns, ns[node].left, point, depth + 1)
                  IN  [heap |-> [r.heap EXCEPT ![node].left = r.ptr], ptr |-> node]
             ELSE LET r == insertRec(ns, ns[node].right, point, depth + 1)
                  IN  [heap |-> [r.heap EXCEPT ![node].right = r.ptr], ptr |-> node]

\* KdTree::insert.
Insert(point) ==
    /\ op = "none"
    /\ op' = "insert"
    /\ args' = <<point>>
    /\ ret' = <<>>
    /\ IF Len(point) # dimensions
       THEN /\ outcome' = "InvalidArgument"
            /\ UNCHANGED <<nodes, root, inserted>>
       ELSE /\ Len(nodes) < MaxNodes
            /\ LET r == insertRec(nodes, root, point, 0)
               IN  /\ nodes' = r.heap
                   /\ root' = r.ptr
            /\ inserted' = Append(inserted, point)
            /\ outcome' = "ok"

\* ------------------------------------------------------------------ search
\* The equality loop of searchRec: compares coordinates 0 .. dimensions-1.
RECURSIVE EqualFrom(_, _, _)
EqualFrom(a, b, i) ==
    IF i = dimensions THEN TRUE
    ELSE IF At(a, i) # At(b, i) THEN FALSE
    ELSE EqualFrom(a, b, i + 1)

\* searchRec with the comparison `<=`: a tie on the split coordinate goes left.
RECURSIVE searchRec_TiesLeft(_, _, _, _)
searchRec_TiesLeft(ns, node, point, depth) ==
    IF node = nullptr THEN FALSE
    ELSE IF EqualFrom(ns[node].point, point, 0) THEN TRUE
    ELSE LET cd == depth % dimensions
         IN  IF At(point, cd) <= At(ns[node].point, cd)
             THEN searchRec_TiesLeft(ns, ns[node].left, point, depth + 1)
             ELSE searchRec_TiesLeft(ns, ns[node].right, point, depth + 1)

\* searchRec(node, point, depth).
RECURSIVE searchRec(_, _, _, _)
searchRec(ns, node, point, depth) ==
    IF node = nullptr THEN FALSE
    ELSE IF EqualFrom(ns[node].point, point, 0) THEN TRUE
    ELSE LET cd == depth % dimensions
         IN  IF At(point, cd) < At(ns[node].point, cd)
             THEN searchRec(ns, ns[node].left, point, depth + 1)
             ELSE searchRec(ns, ns[node].right, point, depth + 1)

\* search that stores the point when it does not find it.
Search_InsertsOnMiss(point) ==
    /\ op = "none"
    /\ op' = "search"
    /\ args' = <<point>>
    /\ IF Len(point) # dimensions
       THEN /\ outcome' = "InvalidArgument"
            /\ ret' = <<>>
            /\ UNCHANGED <<nodes, root, inserted>>
       ELSE /\ outcome' = "ok"
            /\ ret' = searchRec(nodes, root, point, 0)
            /\ IF searchRec(nodes, root, point, 0) \/ Len(nodes) >= MaxNodes
               THEN UNCHANGED <<nodes, root, inserted>>
               ELSE /\ nodes' = insertRec(nodes, root, point, 0).heap
                    /\ root' = insertRec(nodes, root, point, 0).ptr
                    /\ inserted' = Append(inserted, point)

\* KdTree::search (const).
Search(point) ==
    /\ op = "none"
    /\ op' = "search"
    /\ args' = <<point>>
    /\ UNCHANGED <<nodes, root, inserted>>
    /\ IF Len(point) # dimensions
       THEN /\ outcome' = "InvalidArgument"
            /\ ret' = <<>>
       ELSE /\ outcome' = "ok"
            /\ ret' = searchRec(nodes, root, point, 0)

\* -------------------------------------------------------- nearestNeighbor
\* nearestNeighborRec with the update test `<=`: a later tie replaces best.
RECURSIVE nearestNeighborRec_NonStrict(_, _, _, _, _)
nearestNeighborRec_NonStrict(ns, node, query, depth, b) ==
    IF node = nullptr THEN b
    ELSE LET cd == depth % dimensions
             dist == distance(query, ns[node].point)
             b1 == IF dist <= b.bestDist
                   THEN [best |-> ns[node].point, bestDist |-> dist,
                         visited |-> Append(b.visited, node)]
                   ELSE [b EXCEPT !.visited = Append(b.visited, node)]
             goLeft == At(query, cd) < At(ns[node].point, cd)
             firstBranch == IF goLeft THEN ns[node].left ELSE ns[node].right
             secondBranch == IF goLeft THEN ns[node].right ELSE ns[node].left
             b2 == nearestNeighborRec_NonStrict(ns, firstBranch, query, depth + 1, b1)
             planeDist == Abs(At(query, cd) - At(ns[node].point, cd))
         IN  IF planeDist < b2.bestDist
             THEN nearestNeighborRec_NonStrict(ns, secondBranch, query, depth + 1, b2)
             ELSE b2

\* nearestNeighborRec(node, query, depth, best, bestDist).  The two reference
\* parameters are the fields best and bestDist of b; the call returns their
\* values on return.  The field visited is a history of the nodes the
\* recursion has entered, in order; the code does not read it.
RECURSIVE nearestNeighborRec(_, _, _, _, _)
nearestNeighborRec(ns, node, query, depth, b) ==
    IF node = nullptr THEN b
    ELSE LET cd == depth % dimensions
             dist == distance(query, ns[node].point)
             b1 == IF dist < b.bestDist
                   THEN [best |-> ns[node].point, bestDist |-> dist,
                         visited |-> Append(b.visited, node)]
                   ELSE [b EXCEPT !.visited = Append(b.visited, node)]
             goLeft == At(query, cd) < At(ns[node].point, cd)
             firstBranch == IF goLeft THEN ns[node].left ELSE ns[node].right
             secondBranch == IF goLeft THEN ns[node].right ELSE ns[node].left
             b2 == nearestNeighborRec(ns, firstBranch, query, depth + 1, b1)
             planeDist == Abs(At(query, cd) - At(ns[node].point, cd))
         IN  IF planeDist < b2.bestDist
             THEN nearestNeighborRec(ns, secondBranch, query, depth + 1, b2)
             ELSE b2

\* The body of KdTree::nearestNeighbor after its two checks: seed best with
\* the root's point, run the recursion from the root.
nearestNeighborRun(ns, rt, query) ==
    LET best == ns[rt].point
        bestDist == distance(query, best)
    IN  nearestNeighborRec(ns, rt, query, 0,
            [best |-> best, bestDist |-> bestDist, visited |-> <<>>])

\* nearestNeighbor with its two checks in the other order.
nearestNeighbor_EmptyFirst(ns, rt, query) ==
    IF rt = nullptr
    THEN [outcome |-> "EmptyTree", ret |-> <<>>]
    ELSE IF Len(query) # dimensions
    THEN [outcome |-> "InvalidArgument", ret |-> <<>>]
    ELSE [outcome |-> "ok", ret |-> nearestNeighborRun(ns, rt, query).best]

\* The outcome of KdTree::nearestNeighbor: the dimension check, then the
\* empty-tree check, then the search.
nearestNeighbor(ns, rt, query) ==
    IF Len(query) # dimensions
    THEN [outcome |-> "InvalidArgument", ret |-> <<>>]
    ELSE IF rt = nullptr
    THEN [outcome |-> "EmptyTree", ret |-> <<>>]
    ELSE [outcome |-> "ok", ret |-> nearestNeighborRun(ns, rt, query).best]

\* KdTree::nearestNeighbor (const).
NearestNeighbor(query) ==
    /\ op = "none"
    /\ op' = "nearestNeighbor"
    /\ args' = <<query>>
    /\ UNCHANGED <<nodes, root, inserted>>
    /\ LET r == nearestNeighbor(nodes, root, query)
       IN  /\ outcome' = r.outcome
           /\ ret' = r.ret

\* ------------------------------------------------------------- rangeSearch
\* The membership loop of rangeSearchRec over coordinates 0 .. dimensions-1.
RECURSIVE InRangeFrom(_, _, _, _)
InRangeFrom(pt, min, max, i) ==
    IF i = dimensions THEN TRUE
    ELSE IF At(pt, i) < At(min, i) \/ At(pt, i) > At(max, i) THEN FALSE
    ELSE InRangeFrom(pt, min, max, i + 1)

\* rangeSearchRec with the right-subtree test `<`: a right subtree whose
\* split coordinate equals max is skipped.
RECURSIVE rangeSearchRec_StrictRight(_, _, _, _, _, _)
rangeSearchRec_StrictRight(ns, node, min, max, depth, result) ==
    IF node = nullptr THEN result
    ELSE LET r0 == IF InRangeFrom(ns[node].point, min, max, 0)
                   THEN Append(result, ns[node].point)
                   ELSE result
             cd == depth % dimensions
             r1 == IF ns[node].left # nullptr /\ At(min, cd) <= At(ns[node].point, cd)
                   THEN rangeSearchRec_StrictRight(ns, ns[node].left, min, max, depth + 1, r0)
                   ELSE r0
         IN  IF ns[node].right # nullptr /\ At(ns[node].point, cd) < At(max, cd)
             THEN rangeSearchRec_StrictRight(ns, ns[node].right, min, max, depth + 1, r1)
             ELSE r1

\* rangeSearchRec that descends into the right subtree before the left one.
RECURSIVE rangeSearchRec_RightFirst(_, _, _, _, _, _)
rangeSearchRec_RightFirst(ns, node, min, max, depth, result) ==
    IF node = nullptr THEN result
    ELSE LET r0 == IF InRangeFrom(ns[node].point, min, max, 0)
                   THEN Append(result, ns[node].point)
                   ELSE result
             cd == depth % dimensions
             r1 == IF ns[node].right # nullptr /\ At(ns[node].point, cd) <= At(max, cd)
                   THEN rangeSearchRec_RightFirst(ns, ns[node].right, min, max, depth + 1, r0)
                   ELSE r0
         IN  IF ns[node].left # nullptr /\ At(min, cd) <= At(ns[node].point, cd)
             THEN rangeSearchRec_RightFirst(ns, ns[node].left, min, max, depth + 1, r1)
             ELSE r1

\* rangeSearchRec(node, min, max, depth, result): returns result on return.
RECURSIVE rangeSearchRec(_, _, _, _, _, _)
rangeSearchRec(ns, node, min, max, depth, result) ==
    IF node = nullptr THEN result
    ELSE LET r0 == IF InRangeFrom(ns[node].point, min, max, 0)
                   THEN Append(result, ns[node].point)
                   ELSE result
             cd == depth % dimensions
             r1 == IF ns[node].left # nullptr /\ At(min, cd) <= At(ns[node].point, cd)
                   THEN rangeSearchRec(ns, ns[node].left, min, max, depth + 1, r0)
                   ELSE r0
         IN  IF ns[node].right # nullptr /\ At(ns[node].point, cd) <= At(max, cd)
             THEN rangeSearchRec(ns, ns[node].right, min, max, depth + 1, r1)
             ELSE r1

\* rangeSearch that rejects the bounds only when both have the wrong size.
rangeSearch_BothWrong(ns, rt, min, max) ==
    IF Len(min) # dimensions /\ Len(max) # dimensions
    THEN [outcome |-> "InvalidArgument", ret |-> <<>>]
    ELSE [outcome |-> "ok", ret |-> rangeSearchRec(ns, rt, min, max, 0, <<>>)]

\* The outcome of KdTree::rangeSearch.
rangeSearch(ns, rt, min, max) ==
    IF Len(min) # dimensions \/ Len(max) # dimensions
    THEN [outcome |-> "InvalidArgument", ret |-> <<>>]
    ELSE [outcome |-> "ok", ret |-> rangeSearchRec(ns, rt, min, max, 0, <<>>)]

\* KdTree::rangeSearch (const).
RangeSearch(min, max) ==
    /\ op = "none"
    /\ op' = "rangeSearch"
    /\ args' = <<min, max>>
    /\ UNCHANGED <<nodes, root, inserted>>
    /\ LET r == rangeSearch(nodes, root, min, max)
       IN  /\ outcome' = r.outcome
           /\ ret' = r.ret

\* ------------------------------------------------------------------ caller
\* The caller takes the outcome of the call it made; the tree is idle again.
\* Calls are synchronous and never overlap: each operation starts from an
\* idle tree (op = "none") and ends before the next one starts.
Return ==
    /\ op # "none"
    /\ op' = "none"
    /\ args' = <<>>
    /\ outcome' = "ok"
    /\ ret' = <<>>
    /\ UNCHANGED <<nodes, root, inserted>>

\* ------------------------------------------------------------------- model
Init ==
    /\ nodes = <<>>
    /\ root = nullptr
    /\ inserted = <<>>
    /\ op = "none"
    /\ args = <<>>
    /\ outcome = "ok"
    /\ ret = <<>>

Next ==
    \/ \E p \in Vectors : Insert(p)
    \/ \E p \in Vectors : Search(p)
    \/ \E q \in Vectors : NearestNeighbor(q)
    \/ \E min, max \in Vectors : RangeSearch(min, max)
    \/ Return

Spec == Init /\ [][Next]_vars

\* =========================================================================
\* Reference definitions used by the properties (none of them is code).
\* =========================================================================
NodeIds == 1..Len(nodes)

IsQuery(o) == o \in {"search", "nearestNeighbor", "rangeSearch"}

\* The set of elements of a sequence.
Range(s) == {s[i] : i \in 1..Len(s)}

\* How many entries of s equal x.
Count(s, x) == Cardinality({i \in 1..Len(s) : s[i] = x})

\* The non-null children of node n in heap ns.
Kids(ns, n) == {ns[n].left, ns[n].right} \ {nullptr}

\* The nodes at depth d below rt (a set; empty below the deepest leaf).
RECURSIVE Level(_, _, _)
Level(ns, rt, d) ==
    IF d = 0 THEN {rt} \ {nullptr}
    ELSE UNION {Kids(ns, n) : n \in Level(ns, rt, d - 1)}

\* The nodes reachable from node n (n included), following at most Len(ns) links.
Subtree(ns, n) == UNION {Level(ns, n, d) : d \in 0..Len(ns)}

\* The depths at which node n is found below rt.
Depths(ns, rt, n) == {d \in 0..Len(ns) : n \in Level(ns, rt, d)}

\* The (parent, side) slots that point to node n.
Slots(ns, n) ==
    {<<m, "left">> : m \in {m \in 1..Len(ns) : ns[m].left = n}}
        \cup {<<m, "right">> : m \in {m \in 1..Len(ns) : ns[m].right = n}}

\* ------------------------------------------------------------------- C7
TreeShape ==
    /\ root \in 0..Len(nodes)
    /\ (root = nullptr) <=> (Len(nodes) = 0)
    /\ root # nullptr => Slots(nodes, root) = {}
    /\ \A n \in NodeIds :
          /\ nodes[n].left \in 0..Len(nodes)
          /\ nodes[n].right \in 0..Len(nodes)
          /\ n # root => Cardinality(Slots(nodes, n)) = 1
          /\ Cardinality(Depths(nodes, root, n)) = 1
          /\ Len(nodes[n].point) = K

SplitOrder ==
    \A n \in NodeIds : \A d \in Depths(nodes, root, n) :
        LET cd == d % K
        IN  /\ nodes[n].left # nullptr =>
                \A m \in Subtree(nodes, nodes[n].left) :
                    nodes[m].point[cd + 1] < nodes[n].point[cd + 1]
            /\ nodes[n].right # nullptr =>
                \A m \in Subtree(nodes, nodes[n].right) :
                    nodes[m].point[cd + 1] >= nodes[n].point[cd + 1]

\* C7: in every state the nodes form a tree below root (the root has no
\* parent, every other node exactly one, every node is at exactly one depth,
\* every stored point has K coordinates), and for every node n at depth d,
\* with cd = d mod K, the points of n's left subtree are strictly below
\* n.point at coordinate cd and those of its right subtree are at or above it.
C7_SplitOrdering == TreeShape /\ SplitOrder

\* A full tree has been built: a node at depth 2, a left child somewhere, and
\* a right descendant that ties with its ancestor on the split coordinate.
C7_Witness ==
    /\ Len(nodes) = MaxNodes
    /\ Level(nodes, root, 2) # {}
    /\ \E n \in NodeIds : nodes[n].left # nullptr
    /\ \E n \in NodeIds : \E d \in Depths(nodes, root, n) :
          /\ nodes[n].right # nullptr
          /\ \E m \in Subtree(nodes, nodes[n].right) :
                nodes[m].point[(d % K) + 1] = nodes[n].point[(d % K) + 1]

\* ------------------------------------------------------------------- C8
\* The ancestors of node n: the nodes whose subtree holds n, n excluded.
Ancestors(ns, n) == {m \in 1..Len(ns) : m # n /\ n \in Subtree(ns, m)}

InsertEffect ==
    LET new == Len(nodes) + 1
    IN  /\ Len(nodes') = new
        /\ Cardinality(Subtree(nodes', root')) = Cardinality(Subtree(nodes, root)) + 1
        /\ new \in Subtree(nodes', root')
        /\ nodes'[new] = [point |-> args'[1], left |-> nullptr, right |-> nullptr]
        /\ \A n \in NodeIds :
              /\ nodes'[n].point = nodes[n].point
              /\ Slots(nodes', n) = Slots(nodes, n)
              /\ Depths(nodes', root', n) = Depths(nodes, root, n)
              /\ nodes[n].left # nullptr => nodes'[n].left = nodes[n].left
              /\ nodes[n].right # nullptr => nodes'[n].right = nodes[n].right
        /\ root # nullptr => root' = root
        /\ \A m \in Ancestors(nodes', new) :
              nodes[m].point = args'[1] => new \in Subtree(nodes', nodes'[m].right)

\* C8: every successful insert adds exactly one node, a leaf holding the
\* inserted point, reachable from the root; every node that existed before
\* keeps its point, its parent, its depth and its children; a point equal to
\* a stored point it passes ends up in that node's right subtree.
C8_InsertAddsOneLeaf ==
    [][(op' = "insert" /\ outcome' = "ok") => InsertEffect]_vars

\* A duplicate has just been inserted below an equal node that is not the root.
C8_Witness ==
    /\ op = "insert"
    /\ outcome = "ok"
    /\ Len(nodes) = MaxNodes
    /\ \E m \in Ancestors(nodes, Len(nodes)) :
          m # root /\ nodes[m].point = nodes[Len(nodes)].point

\* ------------------------------------------------------------------- C2
\* C2: a search with a K-coordinate point returns true exactly when the point
\* equals one of the points inserted so far.
C2_SearchFindsExactlyInserted ==
    (op = "search" /\ Len(args[1]) = K) =>
        /\ outcome = "ok"
        /\ ret = (args[1] \in Range(inserted))

\* A search has found a point stored twice, below the root of a full tree.
C2_Witness ==
    /\ op = "search"
    /\ outcome = "ok"
    /\ ret = TRUE
    /\ Len(nodes) = MaxNodes
    /\ nodes[root].point # args[1]
    /\ Count(inserted, args[1]) >= 2

\* ------------------------------------------------------------------- C3
\* p lies in the inclusive box [min, max].
InBox(p, min, max) == \A i \in 1..K : min[i] <= p[i] /\ p[i] <= max[i]

\* C3: a range search with K-coordinate bounds raises no error and returns,
\* as a set, exactly the inserted points that lie in the inclusive box; when
\* min exceeds max on some coordinate the result is empty.
C3_RangeSearchIsBruteForceFilter ==
    (op = "rangeSearch" /\ Len(args[1]) = K /\ Len(args[2]) = K) =>
        /\ outcome = "ok"
        /\ Range(ret) = {p \in Range(inserted) : InBox(p, args[1], args[2])}
        /\ (\E i \in 1..K : args[1][i] > args[2][i]) => ret = <<>>

\* A range search on a full tree has returned some of the stored points and
\* left out others, one of them in a subtree the pruning skipped.
C3_Witness ==
    /\ op = "rangeSearch"
    /\ outcome = "ok"
    /\ Len(nodes) = MaxNodes
    /\ ret # <<>>
    /\ Len(ret) < Len(nodes)
    /\ \E n \in NodeIds : \E d \in Depths(nodes, root, n) :
          /\ nodes[n].right # nullptr
          /\ nodes[n].point[(d % K) + 1] > args[2][(d % K) + 1]

\* ------------------------------------------------------------------ C10
\* The nodes below n in pre-order: the node, its left subtree, its right
\* subtree (fuel bounds the recursion by the size of the heap).
RECURSIVE PreOrder(_, _, _)
PreOrder(ns, n, fuel) ==
    IF n = nullptr \/ fuel = 0 THEN <<>>
    ELSE <<n>> \o PreOrder(ns, ns[n].left, fuel - 1)
               \o PreOrder(ns, ns[n].right, fuel - 1)

\* The points of the nodes listed in ids that lie in the box, in that order.
RECURSIVE BoxPoints(_, _, _, _)
BoxPoints(ns, ids, min, max) ==
    IF ids = <<>> THEN <<>>
    ELSE (IF InBox(ns[Head(ids)].point, min, max)
          THEN <<ns[Head(ids)].point>> ELSE <<>>)
         \o BoxPoints(ns, Tail(ids), min, max)

\* C10: the sequence a range search returns is the pre-order listing of the
\* stored nodes whose point lies in the box, so a point in the box appears as
\* many times as it was inserted; on an empty tree it is the empty sequence.
C10_RangeSearchIsPreOrderListing ==
    (op = "rangeSearch" /\ outcome = "ok") =>
        /\ ret = BoxPoints(nodes, PreOrder(nodes, root, Len(nodes)), args[1], args[2])
        /\ \A p \in Points :
              Count(ret, p) = IF InBox(p, args[1], args[2]) THEN Count(inserted, p) ELSE 0
        /\ inserted = <<>> => ret = <<>>

\* A range search has returned a point stored twice, twice, after a point
\* found in the left subtree of the root.
C10_Witness ==
    /\ op = "rangeSearch"
    /\ outcome = "ok"
    /\ Len(ret) = MaxNodes
    /\ nodes[root].left # nullptr
    /\ \E p \in Range(ret) : Count(ret, p) = 2

\* ------------------------------------------------------------------- C4
\* Some argument of the call has a size other than K.
WrongSize(a) == \E i \in 1..Len(a) : Len(a[i]) # K

\* C4: every call of insert, search, nearestNeighbor or rangeSearch with an
\* argument whose size differs from K ends in InvalidArgument and leaves the
\* heap and the root as they were.
C4_DimensionGuard ==
    [][(op' # "none" /\ WrongSize(args')) =>
            /\ outcome' = "InvalidArgument"
            /\ nodes' = nodes
            /\ root' = root]_vars

\* A range search on a non-empty tree was rejected for its max alone.
C4_Witness ==
    /\ op = "rangeSearch"
    /\ outcome = "InvalidArgument"
    /\ Len(args[1]) = K
    /\ Len(args[2]) # K
    /\ Len(nodes) = MaxNodes

\* ------------------------------------------------------------------- C5
\* C5: nearestNeighbor with a query of the wrong size ends in InvalidArgument,
\* also on an empty tree; with a K-coordinate query it ends in EmptyTree when
\* nothing has been inserted and never does once something has.
C5_NearestNeighborErrors ==
    op = "nearestNeighbor" =>
        /\ Len(args[1]) # K => outcome = "InvalidArgument"
        /\ (Len(args[1]) = K /\ inserted = <<>>) => outcome = "EmptyTree"
        /\ (Len(args[1]) = K /\ inserted # <<>>) => outcome = "ok"

\* nearestNeighbor was called on the empty tree with a K-coordinate query.
C5_Witness ==
    /\ op = "nearestNeighbor"
    /\ inserted = <<>>
    /\ Len(args[1]) = K
    /\ outcome = "EmptyTree"

\* ------------------------------------------------------------------- C6
\* What the query o with arguments a returns when called on heap ns, root rt.
Requery(ns, rt, o, a) ==
    IF o = "search"
    THEN IF Len(a[1]) # K THEN [outcome |-> "InvalidArgument", ret |-> <<>>]
         ELSE [outcome |-> "ok", ret |-> searchRec(ns, rt, a[1], 0)]
    ELSE IF o = "nearestNeighbor" THEN nearestNeighbor(ns, rt, a[1])
    ELSE rangeSearch(ns, rt, a[1], a[2])

\* C6: a query, whether it returns or throws, leaves the heap and the root as
\* they were, and the same query called again on the tree it leaves behind
\* ends the same way with the same value.
C6_QueriesReadOnly ==
    [][IsQuery(op') =>
            /\ nodes' = nodes
            /\ root' = root
            /\ Requery(nodes', root', op', args') = [outcome |-> outcome', ret |-> ret']]_vars

\* A search on a full tree has returned false.
C6_Witness ==
    /\ op = "search"
    /\ outcome = "ok"
    /\ ret = FALSE
    /\ Len(nodes) = MaxNodes

\* ------------------------------------------------------------------- C9
\* The sum of the squared coordinate differences of a and b.
RECURSIVE SqDistUpTo(_, _, _)
SqDistUpTo(a, b, n) ==
    IF n = 0 THEN 0
    ELSE SqDistUpTo(a, b, n - 1) + (a[n] - b[n]) * (a[n] - b[n])

SqDist(a, b) == SqDistUpTo(a, b, K)

\* r is the square root of n truncated to an integer.
IsFloorSqrt(r, n) == r >= 0 /\ r * r <= n /\ n < (r + 1) * (r + 1)

\* The position in seq of the first element that satisfies dist = m, or 0.
FirstAt(ns, seq, q, m) ==
    LET hits == {j \in 1..Len(seq) : distance(q, ns[seq[j]].point) = m}
    IN  IF hits = {} THEN 0 ELSE CHOOSE j \in hits : \A k \in hits : j <= k

\* C9: the distance helper returns the truncated square root of the sum of
\* squared differences; nearestNeighbor returns the point of a stored node
\* whose truncated distance to the query is minimal over all stored nodes,
\* namely of the first such node the recursion visits, and the root's point
\* when the root is one of them.
C9_NearestByTruncatedDistance ==
    (op = "nearestNeighbor" /\ outcome = "ok") =>
        LET q == args[1]
            visited == nearestNeighborRun(nodes, root, q).visited
            m == CHOOSE d \in {distance(q, nodes[n].point) : n \in NodeIds} :
                    \A n \in NodeIds : d <= distance(q, nodes[n].point)
            first == FirstAt(nodes, visited, q, m)
        IN  /\ \A n \in NodeIds :
                  IsFloorSqrt(distance(q, nodes[n].point), SqDist(q, nodes[n].point))
            /\ \E n \in NodeIds : ret = nodes[n].point
            /\ IsFloorSqrt(m, SqDist(q, ret))
            /\ first # 0
            /\ ret = nodes[visited[first]].point
            /\ distance(q, nodes[root].point) = m => ret = nodes[root].point

\* nearestNeighbor kept the root's point although another stored point is
\* strictly nearer to the query and has the same truncated distance.
C9_Witness ==
    /\ op = "nearestNeighbor"
    /\ outcome = "ok"
    /\ ret = nodes[root].point
    /\ \E n \in NodeIds :
          /\ SqDist(args[1], nodes[n].point) < SqDist(args[1], ret)
          /\ distance(args[1], nodes[n].point) = distance(args[1], ret)

\* ------------------------------------------------------------------- C1
\* C1: the point nearestNeighbor returns is a stored point at least as near
\* to the query, in Euclidean distance, as every stored point.
C1_NearestIsEuclideanNearest ==
    (op = "nearestNeighbor" /\ outcome = "ok") =>
        /\ \E n \in NodeIds : ret = nodes[n].point
        /\ \A n \in NodeIds : SqDist(args[1], ret) <= SqDist(args[1], nodes[n].point)

====
